---- MODULE Spec2Model ----
\* Nested-set container (ns.go): a flat collection of node references carrying
\* left/right/level coordinates, renumbered in place by Add, Delete and Move.
EXTENDS Integers, Sequences, FiniteSets

\* ---------------------------------------------------------------- bounds
\* Number of caller-owned node objects besides the root.
MaxPool == 3
\* Number of successful Add calls explored when the callers keep to the
\* documented preconditions (caps maxId and the coordinates).
MaxAdds == 3
\* Number of successful Add calls explored when the callers pass any arguments.
MaxAddsAny == 2
\* Number of successful mutating calls explored on a collection that an earlier
\* call has left violating the data-model invariants (calls that fail, and Branch,
\* are explored there without limit).
MaxBroken == 0
\* The same two budgets of the deeper exploration of arbitrary arguments.
MaxAddsDeep == 3
MaxBrokenDeep == 1
\* Number of distinct ids the callers give their nodes: node n carries the id
\* n % NumIds, so that the pool holds nodes with a unique id and nodes sharing one.
NumIds == 3
\* Number of concurrent callers, and the number of successful Add calls
\* explored with them.
NumProcs == 2
MaxAddsConc == 1

\* ---------------------------------------------------------------- node references
rootNode == 0
Nil == -1
Pool == 0..MaxPool
Args == Pool \cup {Nil}
Ids == 0..(NumIds - 1)
Procs == 1..NumProcs

\* ---------------------------------------------------------------- call outcomes
Ok == "ok"
Panic == "panic"
ErrParentNotFound == "Parent node not found in structure"
ErrCantDeleteRoot == "Can't delete root node"
ErrNodeNotFound == "Node not found in structure"
ErrCantMoveRoot == "Can't move root node"
ErrWithinItself == "Can't move branch to node within itself"
ErrStructureBroken == "Parent node not found, the structure broken"
ErrSameBranch == "Moving in same branch not implemented"

VARIABLES nodes, left, right, level, id, maxId, mutex, last, pre, broken, used, kids, prekids,
          addsOnly, removed, preremoved, adds, pc, frame

vars == <<nodes, left, right, level, id, maxId, mutex, last, pre, broken, used, kids, prekids,
          addsOnly, removed, preremoved, adds, pc, frame>>

\* The container and the node fields reachable from the callers' references.
Snap == [nodes |-> nodes, left |-> left, right |-> right, level |-> level, maxId |-> maxId]

NoSnap == [nodes |-> <<>>, left |-> <<>>, right |-> <<>>, level |-> <<>>, maxId |-> -1]

\* A call as its caller sees it: the operation, its arguments, the error (or Ok)
\* and the returned nodes: the slice of Branch, the node of Parent or FindById
\* (<<>> for nil); id is the argument of FindById.
Call(o, n, p, r) ==
  [op |-> o, node |-> n, parent |-> p, res |-> r, ret |-> <<>>, id |-> Nil]

NoCall == Call("none", Nil, Nil, Ok)

Fields(st) == [left |-> st.left, right |-> st.right, level |-> st.level]

WithFields(st, f) == [st EXCEPT !.left = f.left, !.right = f.right, !.level = f.level]

\* ---------------------------------------------------------------- helpers
exists(seq, n) == \E i \in 1..Len(seq) : seq[i] = n

\* s.parent: the first node of the collection containing node's interval one level up.
parentOf(seq, l, r, lv, n) ==
  LET hits == {i \in 1..Len(seq) :
                 l[seq[i]] <= l[n] /\ r[seq[i]] >= r[n] /\ lv[seq[i]] = lv[n] - 1}
  IN IF hits = {} THEN Nil
     ELSE seq[CHOOSE i \in hits : \A j \in hits : i <= j]

\* sort.Sort(SortedNodes(s.nodes)): every order of the same elements that is
\* ascending in left; sort.Sort is not stable, so elements with equal left may
\* end in any relative order.
RECURSIVE SortedOrders(_, _, _)
SortedOrders(seq, idx, l) ==
  IF idx = {} THEN {<<>>}
  ELSE LET firsts == {i \in idx : \A j \in idx : l[seq[i]] <= l[seq[j]]}
       IN UNION {{<<seq[i]>> \o rest : rest \in SortedOrders(seq, idx \ {i}, l)} : i \in firsts}

SortNodes(seq, l) == SortedOrders(seq, 1..Len(seq), l)

RECURSIVE SelectWithin(_, _, _, _, _)
SelectWithin(seq, i, l, r, n) ==
  IF i > Len(seq) THEN <<>>
  ELSE (IF l[seq[i]] >= l[n] /\ r[seq[i]] <= r[n] THEN <<seq[i]>> ELSE <<>>)
       \o SelectWithin(seq, i + 1, l, r, n)

\* s.branch on an already sorted collection.
branchOf(sorted, l, r, n) ==
  IF n = Nil THEN sorted
  ELSE IF ~exists(sorted, n) THEN <<>>
  ELSE SelectWithin(sorted, 1, l, r, n)

\* ---------------------------------------------------------------- Add
\* Faulty variant: the widening pass misses the node whose right is the insertion point.
RECURSIVE AddLoop_StrictRight(_, _, _, _)
AddLoop_StrictRight(f, seq, i, bound) ==
  IF i > Len(seq) THEN f
  ELSE LET n == seq[i]
           f1 == IF f.right[n] > bound
                 THEN [f EXCEPT !.right[n] = @ + 2,
                                !.left[n] = IF f.left[n] > bound THEN @ + 2 ELSE @]
                 ELSE f
       IN AddLoop_StrictRight(f1, seq, i + 1, bound)

\* The widening pass, in collection order, on the fields f = [left, right, level].
RECURSIVE AddLoop(_, _, _, _)
AddLoop(f, seq, i, bound) ==
  IF i > Len(seq) THEN f
  ELSE LET n == seq[i]
           f1 == IF f.right[n] >= bound
                 THEN [f EXCEPT !.right[n] = @ + 2,
                                !.left[n] = IF f.left[n] > bound THEN @ + 2 ELSE @]
                 ELSE f
       IN AddLoop(f1, seq, i + 1, bound)

\* Faulty variant: the new node is given its parent's level.
AddFields_SameLevel(seq, f, newNode, p) ==
  LET rt == f.right[p]
      f0 == [f EXCEPT !.level[newNode] = f.level[p], !.left[newNode] = rt,
                      !.right[newNode] = rt + 1]
  IN AddLoop(f0, seq, 1, rt)

\* Lines 61-78 of Add: the new node's coordinates, then the widening pass.
AddFields(seq, f, newNode, p) ==
  LET lv == f.level[p] + 1
      rt == f.right[p]
      f0 == [f EXCEPT !.level[newNode] = lv, !.left[newNode] = rt, !.right[newNode] = rt + 1]
  IN AddLoop(f0, seq, 1, rt)

\* Faulty variant: the counter is incremented before the parent is looked up.
AddResult_CountsFirst(st, newNode, parent) ==
  IF parent # Nil /\ ~exists(st.nodes, parent)
  THEN [res |-> ErrParentNotFound, st |-> [st EXCEPT !.maxId = @ + 1]]
  ELSE IF newNode = Nil
  THEN [res |-> Panic, st |-> st]
  ELSE LET p == IF parent = Nil THEN rootNode ELSE parent
           f == AddFields(st.nodes, Fields(st), newNode, p)
       IN [res |-> Ok,
           st |-> [WithFields(st, f) EXCEPT !.maxId = @ + 1,
                                            !.nodes = Append(@, newNode)]]

\* The body of Add on the state st: [res, st].
AddResult(st, newNode, parent) ==
  IF parent # Nil /\ ~exists(st.nodes, parent)
  THEN [res |-> ErrParentNotFound, st |-> st]
  ELSE IF newNode = Nil
  THEN [res |-> Panic, st |-> st]
  ELSE LET p == IF parent = Nil THEN rootNode ELSE parent
           f == AddFields(st.nodes, Fields(st), newNode, p)
       IN [res |-> Ok,
           st |-> [WithFields(st, f) EXCEPT !.maxId = @ + 1,
                                            !.nodes = Append(@, newNode)]]

\* ---------------------------------------------------------------- Delete
\* Faulty variant: the removal width is taken as right - left.
RECURSIVE DeleteLoop_WidthOffByOne(_, _, _, _)
DeleteLoop_WidthOffByOne(acc, seq, i, node) ==
  IF i > Len(seq) THEN acc
  ELSE LET n == seq[i]
           f == acc.f
       IN IF f.left[n] < f.left[node] \/ f.right[n] > f.right[node]
          THEN LET f1 == IF f.right[n] > f.right[node]
                         THEN [f EXCEPT !.right[n] = @ - (f.right[node] - f.left[node])]
                         ELSE f
                   f2 == IF f1.left[n] > f1.left[node]
                         THEN [f1 EXCEPT !.left[n] = @ - (f1.right[node] - f1.left[node])]
                         ELSE f1
               IN DeleteLoop_WidthOffByOne([f |-> f2, out |-> Append(acc.out, n)],
                                           seq, i + 1, node)
          ELSE DeleteLoop_WidthOffByOne(acc, seq, i + 1, node)

\* Faulty variant: the survivor test is not strict, so the deleted node itself survives.
RECURSIVE DeleteLoop_KeepsNode(_, _, _, _)
DeleteLoop_KeepsNode(acc, seq, i, node) ==
  IF i > Len(seq) THEN acc
  ELSE LET n == seq[i]
           f == acc.f
       IN IF f.left[n] <= f.left[node] \/ f.right[n] >= f.right[node]
          THEN LET f1 == IF f.right[n] > f.right[node]
                         THEN [f EXCEPT !.right[n] = @ - (f.right[node] - f.left[node] + 1)]
                         ELSE f
                   f2 == IF f1.left[n] > f1.left[node]
                         THEN [f1 EXCEPT !.left[n] = @ - (f1.right[node] - f1.left[node] + 1)]
                         ELSE f1
               IN DeleteLoop_KeepsNode([f |-> f2, out |-> Append(acc.out, n)],
                                       seq, i + 1, node)
          ELSE DeleteLoop_KeepsNode(acc, seq, i + 1, node)

\* The closing pass: acc = [f, out], out the survivors in collection order.
RECURSIVE DeleteLoop(_, _, _, _)
DeleteLoop(acc, seq, i, node) ==
  IF i > Len(seq) THEN acc
  ELSE LET n == seq[i]
           f == acc.f
       IN IF f.left[n] < f.left[node] \/ f.right[n] > f.right[node]
          THEN LET f1 == IF f.right[n] > f.right[node]
                         THEN [f EXCEPT !.right[n] = @ - (f.right[node] - f.left[node] + 1)]
                         ELSE f
                   f2 == IF f1.left[n] > f1.left[node]
                         THEN [f1 EXCEPT !.left[n] = @ - (f1.right[node] - f1.left[node] + 1)]
                         ELSE f1
               IN DeleteLoop([f |-> f2, out |-> Append(acc.out, n)], seq, i + 1, node)
          ELSE DeleteLoop(acc, seq, i + 1, node)

\* The body of Delete on the state st: [res, st].
DeleteResult(st, node) ==
  IF node = Nil \/ node = rootNode
  THEN [res |-> ErrCantDeleteRoot, st |-> st]
  ELSE IF ~exists(st.nodes, node)
  THEN [res |-> ErrNodeNotFound, st |-> st]
  ELSE LET acc == DeleteLoop([f |-> Fields(st), out |-> <<>>], st.nodes, 1, node)
       IN [res |-> Ok, st |-> [WithFields(st, acc.f) EXCEPT !.nodes = acc.out]]

\* ---------------------------------------------------------------- Move
\* The shift pass of the isUp branch.
RECURSIVE MoveUpLoop(_, _, _, _, _, _)
MoveUpLoop(f, seq, i, lt, rightNear, skewTree) ==
  IF i > Len(seq) THEN f
  ELSE LET n == seq[i]
           f1 == IF f.right[n] < lt /\ f.right[n] > rightNear
                 THEN [f EXCEPT !.right[n] = @ + skewTree] ELSE f
           f2 == IF f1.left[n] < lt /\ f1.left[n] > rightNear
                 THEN [f1 EXCEPT !.left[n] = @ + skewTree] ELSE f1
       IN MoveUpLoop(f2, seq, i + 1, lt, rightNear, skewTree)

\* Faulty variant: the shift pass of the other branch has no upper bound.
RECURSIVE MoveDownLoop_NoUpperBound(_, _, _, _, _, _)
MoveDownLoop_NoUpperBound(f, seq, i, rt, rightNear, skewTree) ==
  IF i > Len(seq) THEN f
  ELSE LET n == seq[i]
           f1 == IF f.right[n] > rt
                 THEN [f EXCEPT !.right[n] = @ - skewTree] ELSE f
           f2 == IF f1.left[n] > rt
                 THEN [f1 EXCEPT !.left[n] = @ - skewTree] ELSE f1
       IN MoveDownLoop_NoUpperBound(f2, seq, i + 1, rt, rightNear, skewTree)

\* The shift pass of the other branch.
RECURSIVE MoveDownLoop(_, _, _, _, _, _)
MoveDownLoop(f, seq, i, rt, rightNear, skewTree) ==
  IF i > Len(seq) THEN f
  ELSE LET n == seq[i]
           f1 == IF f.right[n] > rt /\ f.right[n] <= rightNear
                 THEN [f EXCEPT !.right[n] = @ - skewTree] ELSE f
           f2 == IF f1.left[n] > rt /\ f1.left[n] <= rightNear
                 THEN [f1 EXCEPT !.left[n] = @ - skewTree] ELSE f1
       IN MoveDownLoop(f2, seq, i + 1, rt, rightNear, skewTree)

\* Faulty variant: the translation of the subtree forgets the level.
RECURSIVE MoveEditLoop_NoLevel(_, _, _, _, _)
MoveEditLoop_NoLevel(f, toUpdate, i, skewEdit, skewLevel) ==
  IF i > Len(toUpdate) THEN f
  ELSE LET n == toUpdate[i]
           f1 == [f EXCEPT !.left[n] = @ + skewEdit, !.right[n] = @ + skewEdit]
       IN MoveEditLoop_NoLevel(f1, toUpdate, i + 1, skewEdit, skewLevel)

\* The translation of the snapshotted subtree.
RECURSIVE MoveEditLoop(_, _, _, _, _)
MoveEditLoop(f, toUpdate, i, skewEdit, skewLevel) ==
  IF i > Len(toUpdate) THEN f
  ELSE LET n == toUpdate[i]
           f1 == [f EXCEPT !.left[n] = @ + skewEdit,
                           !.right[n] = @ + skewEdit,
                           !.level[n] = @ + skewLevel]
       IN MoveEditLoop(f1, toUpdate, i + 1, skewEdit, skewLevel)

\* Faulty variant: the edit offset is not recomputed in the branch that is not isUp.
MoveFields_NoRecompute(sorted, f, node, p) ==
  LET lv == f.level[node]
      lt == f.left[node]
      rt == f.right[node]
      rightNear == f.right[p] - 1
      skewLevel == f.level[p] - lv + 1
      skewTree == rt - lt + 1
      isUp == rightNear < rt
      skewEdit == rightNear - lt + 1
      toUpdate == branchOf(sorted, f.left, f.right, node)
      shifted == IF isUp THEN MoveUpLoop(f, sorted, 1, lt, rightNear, skewTree)
                 ELSE MoveDownLoop(f, sorted, 1, rt, rightNear, skewTree)
  IN MoveEditLoop(shifted, toUpdate, 1, skewEdit, skewLevel)

\* Lines 149-190 of Move, on the collection as s.branch has sorted it.
MoveFields(sorted, f, node, p) ==
  LET lv == f.level[node]
      lt == f.left[node]
      rt == f.right[node]
      levelUp == f.level[p]
      rightNear == f.right[p] - 1
      skewLevel == levelUp - lv + 1
      skewTree == rt - lt + 1
      isUp == rightNear < rt
      skewEdit == IF isUp THEN rightNear - lt + 1 ELSE rightNear - lt + 1 - skewTree
      toUpdate == branchOf(sorted, f.left, f.right, node)
      shifted == IF isUp THEN MoveUpLoop(f, sorted, 1, lt, rightNear, skewTree)
                 ELSE MoveDownLoop(f, sorted, 1, rt, rightNear, skewTree)
  IN MoveEditLoop(shifted, toUpdate, 1, skewEdit, skewLevel)

\* The precondition checks of Move, lines 129-147; Ok when all pass.
MoveCheck(seq, l, r, lv, node, p) ==
  IF lv[node] = 0 THEN ErrCantMoveRoot
  ELSE IF l[p] >= l[node] /\ r[p] <= r[node] THEN ErrWithinItself
  ELSE IF parentOf(seq, l, r, lv, node) = Nil THEN ErrStructureBroken
  ELSE IF parentOf(seq, l, r, lv, node) = p THEN ErrSameBranch
  ELSE Ok

\* Faulty variant: the collection is sorted before the precondition checks.
MoveResults_SortFirst(st, node, parent) ==
  IF node = Nil THEN {[res |-> Panic, st |-> st]}
  ELSE LET p == IF parent = Nil THEN rootNode ELSE parent
           chk == MoveCheck(st.nodes, st.left, st.right, st.level, node, p)
       IN {[res |-> chk,
            st |-> IF chk # Ok THEN [st EXCEPT !.nodes = sorted]
                   ELSE [WithFields(st, MoveFields(sorted, Fields(st), node, p))
                           EXCEPT !.nodes = sorted]] :
             sorted \in SortNodes(st.nodes, st.left)}

\* The body of Move on the state st: the set of its possible [res, st] (one per
\* order the sort may leave the collection in).
MoveResults(st, node, parent) ==
  IF node = Nil THEN {[res |-> Panic, st |-> st]}
  ELSE LET p == IF parent = Nil THEN rootNode ELSE parent
           chk == MoveCheck(st.nodes, st.left, st.right, st.level, node, p)
       IN IF chk # Ok THEN {[res |-> chk, st |-> st]}
          ELSE {[res |-> Ok,
                 st |-> [WithFields(st, MoveFields(sorted, Fields(st), node, p))
                           EXCEPT !.nodes = sorted]] :
                  sorted \in SortNodes(st.nodes, st.left)}

\* ---------------------------------------------------------------- Branch
\* Faulty variant: a node outside the collection is turned away before the sort.
BranchResults_CheckFirst(st, node) ==
  IF node # Nil /\ ~exists(st.nodes, node) THEN {[ret |-> <<>>, st |-> st]}
  ELSE {[ret |-> branchOf(sorted, st.left, st.right, node),
         st |-> [st EXCEPT !.nodes = sorted]] :
          sorted \in SortNodes(st.nodes, st.left)}

\* The body of Branch: the possible [ret, st].
BranchResults(st, node) ==
  {[ret |-> branchOf(sorted, st.left, st.right, node), st |-> [st EXCEPT !.nodes = sorted]] :
     sorted \in SortNodes(st.nodes, st.left)}

\* ---------------------------------------------------------------- Parent, FindById
\* The body of Parent: [res, ret]. The loop body calls node.GetLeft(), which
\* panics on a nil interface as soon as the collection has an element.
ParentResult(st, node) ==
  IF node = Nil /\ Len(st.nodes) > 0 THEN [res |-> Panic, ret |-> <<>>]
  ELSE LET n == IF node = Nil THEN Nil
                ELSE parentOf(st.nodes, st.left, st.right, st.level, node)
       IN [res |-> Ok, ret |-> IF n = Nil THEN <<>> ELSE <<n>>]

\* The body of FindById: the first node of the collection carrying the id.
FindByIdResult(st, ids, i) ==
  LET hits == {j \in 1..Len(st.nodes) : ids[st.nodes[j]] = i}
  IN IF hits = {} THEN <<>>
     ELSE <<st.nodes[CHOOSE j \in hits : \A k \in hits : j <= k]>>

\* ---------------------------------------------------------------- data-model invariants
Members(st) == {st.nodes[i] : i \in 1..Len(st.nodes)}

NoDuplicates(st) == \A i, j \in 1..Len(st.nodes) : st.nodes[i] = st.nodes[j] => i = j

\* a's interval strictly contains b's.
Contains(st, a, b) == st.left[a] < st.left[b] /\ st.right[b] < st.right[a]

Disjoint(st, a, b) == st.right[a] < st.left[b] \/ st.right[b] < st.left[a]

Ancestors(st, n) == {a \in Members(st) : Contains(st, a, n)}

Endpoints(st) == {st.left[n] : n \in Members(st)} \cup {st.right[n] : n \in Members(st)}

\* The invariants of the data model on the collection of st.
WellFormed(st) ==
  /\ NoDuplicates(st)
  /\ rootNode \in Members(st)
  /\ \A n \in Members(st) : st.level[n] = 0 <=> n = rootNode
  /\ st.left[rootNode] = 0
  /\ \A n \in Members(st) : st.left[n] < st.right[n]
  /\ \A a, b \in Members(st) :
        a # b => Disjoint(st, a, b) \/ Contains(st, a, b) \/ Contains(st, b, a)
  /\ \A n \in Members(st) : st.level[n] = Cardinality(Ancestors(st, n))
  /\ Endpoints(st) = 0..(2 * Cardinality(Members(st)) - 1)

\* ---------------------------------------------------------------- reference tree
\* kids is a history variable: the tree the documented calls describe, as the
\* ordered children of every node, kept apart from the coordinates. The claims
\* compare the coordinates the code computes with this tree.
RECURSIVE Without(_, _)
Without(seq, n) ==
  IF seq = <<>> THEN <<>>
  ELSE (IF Head(seq) = n THEN <<>> ELSE <<Head(seq)>>) \o Without(Tail(seq), n)

Range(seq) == {seq[i] : i \in 1..Len(seq)}

RECURSIVE Subtree(_, _)
Subtree(k, n) == {n} \cup UNION {Subtree(k, c) : c \in Range(k[n])}

Detach(k, n) == [m \in DOMAIN k |-> Without(k[m], n)]

TreeAdd(k, x, p) == [Detach(k, x) EXCEPT ![x] = <<>>, ![p] = Append(Without(@, x), x)]

TreeDelete(k, x) ==
  LET gone == Subtree(k, x)
  IN [m \in DOMAIN k |-> IF m \in gone THEN <<>> ELSE Without(k[m], x)]

TreeMove(k, n, p) ==
  IF p \in Subtree(k, n) THEN k
  ELSE [Detach(k, n) EXCEPT ![p] = Append(@, n)]

\* The tree after the call c (its effective parent resolved), from the tree k.
TreeAfter(k, c) ==
  LET p == IF c.parent = Nil THEN rootNode ELSE c.parent
  IN IF c.res # Ok THEN k
     ELSE IF c.op = "Add" THEN TreeAdd(k, c.node, p)
     ELSE IF c.op = "Delete" THEN TreeDelete(k, c.node)
     ELSE IF c.op = "Move" THEN TreeMove(k, c.node, p)
     ELSE k

TreeMembers(k) == Subtree(k, rootNode)

TreeParent(k, n) ==
  IF \E m \in DOMAIN k : n \in Range(k[m])
  THEN CHOOSE m \in DOMAIN k : n \in Range(k[m])
  ELSE Nil

RECURSIVE TreeSize(_, _)
TreeSize(k, n) ==
  LET RECURSIVE Sum(_)
      Sum(seq) == IF seq = <<>> THEN 0 ELSE TreeSize(k, Head(seq)) + Sum(Tail(seq))
  IN 1 + Sum(k[n])

\* Depth-first numbering of the tree k from (start, depth) at node n: the
\* coordinates a nested set gives the subtree of n.
RECURSIVE Numbering(_, _, _, _)
Numbering(k, n, start, depth) ==
  LET RECURSIVE Children(_, _)
      Children(seq, at) ==
        IF seq = <<>> THEN <<>>
        ELSE Numbering(k, Head(seq), at, depth + 1)
             \o Children(Tail(seq), at + 2 * TreeSize(k, Head(seq)))
  IN <<[node |-> n, left |-> start, right |-> start + 2 * TreeSize(k, n) - 1, level |-> depth]>>
     \o Children(k[n], start + 1)

\* The coordinates agree with the tree k: the members are the nodes of k, each
\* once, and each carries the numbering of its place in k.
Encodes(st, k) ==
  LET num == Numbering(k, rootNode, 0, 0)
  IN /\ Len(st.nodes) = Len(num)
     /\ Range(st.nodes) = {num[i].node : i \in 1..Len(num)}
     /\ \A i \in 1..Len(num) :
          /\ st.left[num[i].node] = num[i].left
          /\ st.right[num[i].node] = num[i].right
          /\ st.level[num[i].node] = num[i].level

\* ---------------------------------------------------------------- calls
\* A call the code lets succeed although its arguments break the documented
\* preconditions: Add of a member, Move of or into a node outside the collection.
IsMisuse(c) ==
  /\ c.res = Ok
  /\ \/ c.op = "Add" /\ exists(nodes, c.node)
     \/ c.op = "Move" /\ ~exists(nodes, c.node)
     \/ c.op = "Move" /\ c.parent # Nil /\ ~exists(nodes, c.parent)

\* The calls the exploration budget MaxBroken counts.
Counted(c) == c.res = Ok /\ c.op \in {"Add", "Delete", "Move"} /\ ~WellFormed(Snap)

\* The body of a public call, entered with the mutex free and leaving it held; the
\* deferred Unlock is its own step.
Enter(c, st) ==
  /\ mutex' = TRUE
  /\ broken' = IF Counted(c) THEN broken + 1 ELSE broken
  /\ pre' = Snap
  /\ last' = c
  /\ used' = IF c.op = "Add" /\ c.res = Ok /\ c.node > used THEN c.node ELSE used
  /\ prekids' = kids
  /\ kids' = IF IsMisuse(c) THEN kids ELSE TreeAfter(kids, c)
  /\ addsOnly' = (addsOnly /\ c.op = "Add" /\ c.res = Ok)
  /\ removed' = IF c.res = Ok /\ c.op = "Delete"
                THEN removed \cup {n \in Members(Snap) : /\ left[n] >= left[c.node]
                                                          /\ right[n] <= right[c.node]}
                ELSE IF c.res = Ok /\ c.op = "Add" THEN removed \ {c.node}
                ELSE removed
  /\ preremoved' = removed
  /\ adds' = IF c.res = Ok /\ c.op = "Add" THEN adds + 1 ELSE adds
  /\ UNCHANGED <<id, pc, frame>>
  /\ nodes' = st.nodes
  /\ left' = st.left
  /\ right' = st.right
  /\ level' = st.level
  /\ maxId' = st.maxId

Add(newNode, parent) ==
  /\ mutex = FALSE
  /\ \E o \in {AddResult(Snap, newNode, parent)} :
       Enter(Call("Add", newNode, parent, o.res), o.st)

Delete(node) ==
  /\ mutex = FALSE
  /\ \E o \in {DeleteResult(Snap, node)} :
       Enter(Call("Delete", node, Nil, o.res), o.st)

Move(node, parent) ==
  /\ mutex = FALSE
  /\ \E o \in MoveResults(Snap, node, parent) :
       Enter(Call("Move", node, parent, o.res), o.st)

Branch(node) ==
  /\ mutex = FALSE
  /\ \E o \in BranchResults(Snap, node) :
       Enter([Call("Branch", node, Nil, Ok) EXCEPT !.ret = o.ret], o.st)

Parent(node) ==
  /\ mutex = FALSE
  /\ \E o \in {ParentResult(Snap, node)} :
       Enter([Call("Parent", node, Nil, o.res) EXCEPT !.ret = o.ret], Snap)

FindById(i) ==
  /\ mutex = FALSE
  /\ Enter([Call("FindById", Nil, Nil, Ok) EXCEPT !.ret = FindByIdResult(Snap, id, i),
                                                 !.id = i], Snap)

\* defer s.mutex.Unlock(): the call returns and its frame is gone.
Unlock ==
  /\ mutex = TRUE
  /\ mutex' = FALSE
  /\ last' = NoCall
  /\ pre' = NoSnap
  /\ prekids' = <<>>
  /\ preremoved' = {}
  /\ UNCHANGED <<nodes, left, right, level, id, maxId, broken, used, kids, addsOnly,
                 removed, adds, pc, frame>>

\* ---------------------------------------------------------------- specification
\* NewNestedSet on a zero-valued root; the other nodes are zero-valued too.
Init ==
  /\ nodes = <<rootNode>>
  /\ left = [n \in Pool |-> 0]
  /\ right = [n \in Pool |-> IF n = rootNode THEN 1 ELSE 0]
  /\ level = [n \in Pool |-> 0]
  /\ id = [n \in Pool |-> n % NumIds]
  /\ maxId = 0
  /\ mutex = FALSE
  /\ last = NoCall
  /\ pre = NoSnap
  /\ broken = 0
  /\ used = 0
  /\ kids = [n \in Pool |-> <<>>]
  /\ prekids = <<>>
  /\ addsOnly = TRUE
  /\ removed = {}
  /\ preremoved = {}
  /\ adds = 0
  /\ pc = [p \in Procs |-> "idle"]
  /\ frame = NoSnap

\* The node references a caller can pass. The callers' nodes that were never
\* added are all alike (zero-valued, referenced nowhere), so they are taken from
\* the pool in order: 1..used have been added, and used + 1 stands for them all.
Refs == {n \in Args : n <= used + 1}

\* The callers keep to the documented preconditions: Add is given a node that is
\* not in the collection, Move a node of the collection and nil or a node of the
\* collection as the parent. Every failure the documentation describes is explored.
DocumentedAdd(newNode) == newNode # Nil /\ ~exists(nodes, newNode)

DocumentedMove(node, parent) ==
  exists(nodes, node) /\ (parent = Nil \/ exists(nodes, parent))

Next ==
  \/ \E n \in Refs, p \in Refs : DocumentedAdd(n) /\ Add(n, p) /\ maxId' <= MaxAdds
  \/ \E n \in Refs : Delete(n)
  \/ \E n \in Refs, p \in Refs : DocumentedMove(n, p) /\ Move(n, p)
  \/ \E n \in Refs : Branch(n)
  \/ \E n \in Refs : Parent(n)
  \/ \E i \in Ids : FindById(i)
  \/ Unlock

Spec == Init /\ [][Next]_vars

\* The callers pass any arguments.
NextAny ==
  \/ \E n \in Refs, p \in Refs : Add(n, p) /\ maxId' <= MaxAddsAny /\ broken' <= MaxBroken
  \/ \E n \in Refs : Delete(n) /\ broken' <= MaxBroken
  \/ \E n \in Refs, p \in Refs : Move(n, p) /\ broken' <= MaxBroken
  \/ \E n \in Refs : Branch(n)
  \/ \E n \in Refs : Parent(n)
  \/ \E i \in Ids : FindById(i)
  \/ Unlock

SpecAny == Init /\ [][NextAny]_vars

\* The callers pass any arguments, explored one call deeper.
NextDeep ==
  \/ \E n \in Refs, p \in Refs :
       Add(n, p) /\ maxId' <= MaxAddsDeep /\ broken' <= MaxBrokenDeep
  \/ \E n \in Refs : Delete(n) /\ broken' <= MaxBrokenDeep
  \/ \E n \in Refs, p \in Refs : Move(n, p) /\ broken' <= MaxBrokenDeep
  \/ \E n \in Refs : Branch(n)
  \/ \E n \in Refs : Parent(n)
  \/ \E i \in Ids : FindById(i)
  \/ Unlock

SpecDeep == Init /\ [][NextDeep]_vars

\* ---------------------------------------------------------------- concurrent callers
\* Each caller p is at pc[p]: "idle" (no call), "lock" (in a public method, at
\* s.mutex.Lock()), "body" (lock held, body not begun), "pass" (a renumbering
\* pass has made its first writes and not its last), "unlock" (body done, the
\* deferred Unlock pending), "marshal" (in MarshalJSON).

\* Add after lines 64-68: the new node's fields and the counter are written, the
\* widening loop and the append are still to come.
AddMid(st, newNode, p) ==
  [st EXCEPT !.level[newNode] = st.level[p] + 1,
             !.left[newNode] = st.right[p],
             !.right[newNode] = st.right[p] + 1,
             !.maxId = @ + 1]

\* Delete after the loop of lines 101-116: the survivors are renumbered, s.nodes
\* is not yet replaced (line 118).
DeleteMid(st, node) ==
  WithFields(st, DeleteLoop([f |-> Fields(st), out |-> <<>>], st.nodes, 1, node).f)

\* Move after lines 159-184: the collection is sorted and the shift pass done,
\* the subtree is not yet translated (lines 186-190).
MoveMid(st, sorted, node, p) ==
  LET f == Fields(st)
      lt == f.left[node]
      rt == f.right[node]
      rightNear == f.right[p] - 1
      skewTree == rt - lt + 1
  IN [WithFields(st, IF rightNear < rt
                     THEN MoveUpLoop(f, sorted, 1, lt, rightNear, skewTree)
                     ELSE MoveDownLoop(f, sorted, 1, rt, rightNear, skewTree))
        EXCEPT !.nodes = sorted]

\* What a call without a pass does to the state st in one piece.
Whole(c, st) == [c |-> c, pass |-> FALSE, mid |-> st, fin |-> st]

\* The bodies a caller holding the lock can run on the state st: the call c (of
\* which the concurrent callers keep the operation and the outcome),
\* whether it has a renumbering pass, the state after the first part and the
\* state at the end.
Bodies(st) ==
  {LET o == AddResult(st, n, p)
       c == Call("Add", n, p, o.res)
   IN IF o.res = Ok
      THEN [c |-> c, pass |-> TRUE, fin |-> o.st,
            mid |-> AddMid(st, n, IF p = Nil THEN rootNode ELSE p)]
      ELSE Whole(c, st) : n \in Refs, p \in Refs}
  \cup
  {LET o == DeleteResult(st, n)
       c == Call("Delete", n, Nil, o.res)
   IN IF o.res = Ok
      THEN [c |-> c, pass |-> TRUE, fin |-> o.st, mid |-> DeleteMid(st, n)]
      ELSE Whole(c, st) : n \in Refs}
  \cup
  UNION {{LET c == Call("Move", n, p, o.res)
          IN IF o.res = Ok
             THEN [c |-> c, pass |-> TRUE, fin |-> o.st,
                   mid |-> MoveMid(st, o.st.nodes, n, IF p = Nil THEN rootNode ELSE p)]
             ELSE Whole(c, st) : o \in MoveResults(st, n, p)} : n \in Refs, p \in Refs}
  \cup
  UNION {{Whole([Call("Branch", n, Nil, Ok) EXCEPT !.ret = o.ret], o.st) :
            o \in BranchResults(st, n)} : n \in Refs}
  \cup
  {LET o == ParentResult(st, n)
   IN Whole([Call("Parent", n, Nil, o.res) EXCEPT !.ret = o.ret], st) : n \in Refs}
  \cup
  {Whole([Call("FindById", Nil, Nil, Ok) EXCEPT !.ret = FindByIdResult(st, id, i),
                                                !.id = i], st) : i \in Ids}

Ghosts == <<id, pre, kids, prekids, addsOnly, removed, preremoved, adds>>

\* A caller enters Add, Delete, Move, Parent, FindById or Branch.
CallLocked(p) ==
  /\ pc[p] = "idle"
  /\ pc' = [pc EXCEPT ![p] = "lock"]
  /\ UNCHANGED <<nodes, left, right, level, maxId, mutex, last, broken, used, frame, Ghosts>>

\* s.mutex.Lock() returns.
Lock(p) ==
  /\ pc[p] = "lock"
  /\ mutex = FALSE
  /\ mutex' = TRUE
  /\ pc' = [pc EXCEPT ![p] = "body"]
  /\ UNCHANGED <<nodes, left, right, level, maxId, last, broken, used, frame, Ghosts>>

\* The body up to the return, or up to the middle of its renumbering pass.
Body(p) ==
  /\ pc[p] = "body"
  /\ \E b \in Bodies(Snap) :
       /\ b.fin.maxId <= MaxAddsConc
       /\ broken' = IF Counted(b.c) THEN broken + 1 ELSE broken
       /\ broken' <= MaxBroken
       /\ used' = IF b.c.op = "Add" /\ b.c.res = Ok /\ b.c.node > used THEN b.c.node ELSE used
       /\ last' = Call(b.c.op, Nil, Nil, b.c.res)
       /\ nodes' = b.mid.nodes
       /\ left' = b.mid.left
       /\ right' = b.mid.right
       /\ level' = b.mid.level
       /\ maxId' = b.mid.maxId
       /\ frame' = IF b.pass THEN b.fin ELSE NoSnap
       /\ pc' = [pc EXCEPT ![p] = IF b.pass THEN "pass" ELSE "unlock"]
  /\ UNCHANGED <<mutex, Ghosts>>

\* The rest of the renumbering pass.
Pass(p) ==
  /\ pc[p] = "pass"
  /\ nodes' = frame.nodes
  /\ left' = frame.left
  /\ right' = frame.right
  /\ level' = frame.level
  /\ maxId' = frame.maxId
  /\ frame' = NoSnap
  /\ pc' = [pc EXCEPT ![p] = "unlock"]
  /\ UNCHANGED <<mutex, last, broken, used, Ghosts>>

\* Faulty variant: the call returns without releasing the lock.
Return_KeepsLock(p) ==
  /\ pc[p] = "unlock"
  /\ last' = NoCall
  /\ pc' = [pc EXCEPT ![p] = "idle"]
  /\ UNCHANGED <<nodes, left, right, level, maxId, mutex, broken, used, frame, Ghosts>>

\* The deferred s.mutex.Unlock() runs and the call returns (or panics on).
Return(p) ==
  /\ pc[p] = "unlock"
  /\ mutex' = FALSE
  /\ last' = NoCall
  /\ pc' = [pc EXCEPT ![p] = "idle"]
  /\ UNCHANGED <<nodes, left, right, level, maxId, broken, used, frame, Ghosts>>

\* A caller enters MarshalJSON: the value receiver copies the container, and no
\* lock is taken.
MarshalJSON(p) ==
  /\ pc[p] = "idle"
  /\ pc' = [pc EXCEPT ![p] = "marshal"]
  /\ UNCHANGED <<nodes, left, right, level, maxId, mutex, last, broken, used, frame, Ghosts>>

\* json.MarshalIndent(s.nodes, ...) reads the nodes, and MarshalJSON returns.
MarshalRead(p) ==
  /\ pc[p] = "marshal"
  /\ pc' = [pc EXCEPT ![p] = "idle"]
  /\ UNCHANGED <<nodes, left, right, level, maxId, mutex, last, broken, used, frame, Ghosts>>

NextConc ==
  \/ \E p \in Procs : CallLocked(p)
  \/ \E p \in Procs : Lock(p)
  \/ \E p \in Procs : Body(p)
  \/ \E p \in Procs : Pass(p)
  \/ \E p \in Procs : Return(p)
  \/ \E p \in Procs : MarshalJSON(p)
  \/ \E p \in Procs : MarshalRead(p)

SpecConc == Init /\ [][NextConc]_vars

\* Fair scheduling: a caller that can take a step of its call takes it, and a
\* caller waiting at s.mutex.Lock() gets the lock if it is free again and again.
Fairness ==
  \A p \in Procs :
    /\ SF_vars(Lock(p))
    /\ WF_vars(Body(p) \/ Pass(p) \/ Return(p) \/ MarshalRead(p))

SpecFair == Init /\ [][NextConc]_vars /\ Fairness

\* ================================================================ claims
Mutating == {"Add", "Delete", "Move"}

Succeeded(op) == mutex /\ last.op = op /\ last.res = Ok

\* The effective parent of the last call.
LastParent == IF last.parent = Nil THEN rootNode ELSE last.parent

\* C1: after every Add, Delete or Move that returns success, whatever node
\* references were passed, the collection satisfies the data-model invariants
\* (one root at level 0, left < right, intervals nested or disjoint, level =
\* number of strictly containing intervals, endpoints exactly 0..2n-1).
C1_SuccessKeepsInvariants ==
  (mutex /\ last.op \in Mutating /\ last.res = Ok) => WellFormed(Snap)

\* C2: after any sequence of Add calls of new nodes under nil or a member, from
\* a fresh root, every node's interval strictly contains the interval of each of
\* its descendants in the tree built, is disjoint from the interval of every
\* node that is neither its ancestor nor its descendant, and its level is the
\* number of intervals strictly containing it.
C2_AddsNestProperly ==
  addsOnly =>
    /\ Range(nodes) = TreeMembers(kids)
    /\ \A a, b \in Range(nodes) :
         a # b =>
           /\ b \in Subtree(kids, a) => Contains(Snap, a, b)
           /\ (b \notin Subtree(kids, a) /\ a \notin Subtree(kids, b)) => Disjoint(Snap, a, b)
    /\ \A n \in Range(nodes) : level[n] = Cardinality(Ancestors(Snap, n))

C2_Witness ==
  /\ addsOnly
  /\ Len(nodes) = 4
  /\ \E a, b \in Range(nodes) : a # b /\ level[a] = 1 /\ level[b] = 1
  /\ \E c \in Range(nodes) : level[c] = 2

\* ---------------------------------------------------------------- the last call
\* N, P: the node and the effective parent of the last call; the state before it.
N == last.node

P == LastParent

PreMember(n) == exists(pre.nodes, n)

\* The nodes of the collection of st lying within n's interval (what Branch(n)
\* returns, as a set).
Within(st, n) ==
  {m \in Members(st) : st.left[m] >= st.left[n] /\ st.right[m] <= st.right[n]}

\* The coordinates follow the reference tree whenever no call is in progress or a
\* call has returned: the inductive fact the claims on documented use rest on.
CoordinatesEncodeTree == Encodes(Snap, kids)

\* C3: Move(N, P) of a non-root member N under a member P (nil: the root) that is
\* neither N, nor a descendant of N, nor N's parent succeeds and yields the tree
\* with N's subtree detached and appended as the last child of P: N.right =
\* P.right - 1, Parent(N) = P, Branch(N) has the same nodes, N's width is
\* unchanged, the left-to-right order of the other nodes is unchanged, and the
\* data-model invariants hold.
C3_Pre ==
  /\ mutex /\ last.op = "Move"
  /\ N # Nil /\ N # rootNode /\ PreMember(N) /\ PreMember(P)
  /\ P \notin Subtree(prekids, N)
  /\ TreeParent(prekids, N) # P

C3_MoveAppendsSubtree ==
  C3_Pre =>
    /\ last.res = Ok
    /\ Encodes(Snap, TreeMove(prekids, N, P))
    /\ kids[P] # <<>> /\ kids[P][Len(kids[P])] = N
    /\ right[N] = right[P] - 1
    /\ parentOf(nodes, left, right, level, N) = P
    /\ Within(Snap, N) = Within(pre, N)
    /\ Within(Snap, N) = Subtree(prekids, N)
    /\ right[N] - left[N] = pre.right[N] - pre.left[N]
    /\ \A a, b \in Members(pre) \ Within(pre, N) :
         (pre.left[a] < pre.left[b]) <=> (left[a] < left[b])
    /\ \A a, b \in Within(pre, N) :
         (pre.left[a] < pre.left[b]) <=> (left[a] < left[b])
    /\ WellFormed(Snap)

\* The branch of Move that is not isUp, on a subtree of two nodes.
C3_Witness ==
  /\ C3_Pre /\ last.res = Ok
  /\ Cardinality(Within(pre, N)) >= 2
  /\ ~(pre.right[P] - 1 < pre.right[N])

\* The isUp branch, on a subtree of two nodes.
C3_WitnessUp ==
  /\ C3_Pre /\ last.res = Ok
  /\ Cardinality(Within(pre, N)) >= 2
  /\ pre.right[P] - 1 < pre.right[N]

\* A move to an ancestor that is not the parent (the other branch again).
C3_WitnessToAncestor ==
  /\ C3_Pre /\ last.res = Ok
  /\ Contains(pre, P, N)

\* C4: Add(X, P) of a node X outside the collection under P (nil or a member)
\* sets X.left to the parent's old right, X.right to that + 1, X.level to the
\* parent's level + 1, adds 2 to the right of every existing node whose right was
\* >= that bound and to the left of every existing node whose left was > it, and
\* changes no other coordinate; X ends as the last child (X.right = P.right - 1);
\* and Add(A,nil), Add(B,nil), Add(C,A) from R(0,1) give R(0,7), A(1,4) level 1,
\* C(2,3) level 2, B(5,6) level 1.
C4_Pre ==
  /\ mutex /\ last.op = "Add"
  /\ N # Nil /\ ~PreMember(N)
  /\ last.parent = Nil \/ PreMember(last.parent)

C4_Scenario ==
  /\ addsOnly
  /\ nodes = <<0, 1, 2, 3>>
  /\ kids[0] = <<1, 2>> /\ kids[1] = <<3>>

C4_AddWidens ==
  /\ C4_Pre =>
       LET bound == pre.right[P]
       IN /\ last.res = Ok
          /\ left[N] = bound /\ right[N] = bound + 1 /\ level[N] = pre.level[P] + 1
          /\ \A n \in Pool \ {N} :
               /\ right[n] = pre.right[n]
                             + (IF PreMember(n) /\ pre.right[n] >= bound THEN 2 ELSE 0)
               /\ left[n] = pre.left[n]
                            + (IF PreMember(n) /\ pre.left[n] > bound THEN 2 ELSE 0)
               /\ level[n] = pre.level[n]
          /\ nodes = Append(pre.nodes, N)
          /\ right[N] = right[P] - 1
  /\ C4_Scenario =>
       /\ left[0] = 0 /\ right[0] = 7 /\ level[0] = 0
       /\ left[1] = 1 /\ right[1] = 4 /\ level[1] = 1
       /\ left[3] = 2 /\ right[3] = 3 /\ level[3] = 2
       /\ left[2] = 5 /\ right[2] = 6 /\ level[2] = 1

C4_Witness == C4_Scenario /\ C4_Pre /\ last.res = Ok /\ N = 3 /\ P = 1

\* C5: Delete(X) of a non-root member removes exactly X and the nodes within X's
\* interval (its subtree), so the count drops by (X.right - X.left + 1) / 2;
\* every survivor whose right was > X.right has it reduced by that width, every
\* survivor whose left was > X.left likewise, no survivor's level changes, and
\* the survivors satisfy the data-model invariants; Delete(A) on R(0,7), A(1,4),
\* C(2,3), B(5,6) leaves exactly R(0,3) and B(1,2).
C5_Pre ==
  /\ mutex /\ last.op = "Delete"
  /\ N # Nil /\ N # rootNode /\ PreMember(N)

C5_Scenario ==
  /\ C5_Pre
  /\ Members(pre) = {0, 1, 2, 3}
  /\ pre.left[0] = 0 /\ pre.right[0] = 7
  /\ pre.left[1] = 1 /\ pre.right[1] = 4
  /\ pre.left[3] = 2 /\ pre.right[3] = 3
  /\ pre.left[2] = 5 /\ pre.right[2] = 6
  /\ N = 1

C5_DeleteCloses ==
  /\ C5_Pre =>
       LET width == pre.right[N] - pre.left[N] + 1
       IN /\ last.res = Ok
          /\ Members(Snap) = Members(pre) \ Within(pre, N)
          /\ Within(pre, N) = Subtree(prekids, N)
          /\ 2 * (Len(pre.nodes) - Len(nodes)) = width
          /\ \A n \in Members(Snap) :
               /\ right[n] = pre.right[n] - (IF pre.right[n] > pre.right[N] THEN width ELSE 0)
               /\ left[n] = pre.left[n] - (IF pre.left[n] > pre.left[N] THEN width ELSE 0)
               /\ level[n] = pre.level[n]
          /\ WellFormed(Snap)
  /\ C5_Scenario =>
       /\ Len(nodes) = 2 /\ Members(Snap) = {0, 2}
       /\ left[0] = 0 /\ right[0] = 3
       /\ left[2] = 1 /\ right[2] = 2

C5_Witness == C5_Scenario /\ last.res = Ok

\* C6: a successful Add(X, P) of a node outside the collection, immediately
\* followed by Delete(X), leaves the collection with the members it had before
\* the Add, each with the left, right and level it had before the Add.
C6_AddThenDeleteRestores ==
  (C4_Pre /\ last.res = Ok) =>
    LET d == DeleteResult(Snap, N)
    IN /\ d.res = Ok
       /\ d.st.nodes = pre.nodes
       /\ \A n \in Members(pre) :
            /\ d.st.left[n] = pre.left[n]
            /\ d.st.right[n] = pre.right[n]
            /\ d.st.level[n] = pre.level[n]

\* An Add in the middle of the numbering: nodes to its right were shifted.
C6_Witness ==
  /\ C4_Pre /\ last.res = Ok
  /\ \E n \in Members(pre) : n # rootNode /\ pre.left[n] > pre.right[P]

\* C7 as stated: Move(N, B) from parent A, then Move(N, A), restores N's left,
\* right and level.
C7_Pre == C3_Pre /\ last.res = Ok

C7_MoveBackRestores ==
  C7_Pre =>
    \A o \in MoveResults(Snap, N, TreeParent(prekids, N)) :
      /\ o.res = Ok
      /\ o.st.left[N] = pre.left[N]
      /\ o.st.right[N] = pre.right[N]
      /\ o.st.level[N] = pre.level[N]

\* C7 amended: the move back succeeds, restores N's level and N's width and
\* leaves N the last child of A; it restores N's left and right (and then every
\* node's coordinates) when N was the last child of A before the first move.
C7_MoveBackRestoresLastChild ==
  C7_Pre =>
    LET A == TreeParent(prekids, N)
    IN \A o \in MoveResults(Snap, N, A) :
         /\ o.res = Ok
         /\ o.st.level[N] = pre.level[N]
         /\ o.st.right[N] - o.st.left[N] = pre.right[N] - pre.left[N]
         /\ o.st.right[N] = o.st.right[A] - 1
         /\ pre.right[N] = pre.right[A] - 1 =>
              \A n \in Members(pre) :
                /\ o.st.left[n] = pre.left[n]
                /\ o.st.right[n] = pre.right[n]
                /\ o.st.level[n] = pre.level[n]

\* N was the last of several children of A, and has a child of its own.
C7_Witness ==
  /\ C7_Pre
  /\ pre.right[N] = pre.right[TreeParent(prekids, N)] - 1
  /\ Len(prekids[TreeParent(prekids, N)]) >= 2

\* N was not the last child of A.
C7_WitnessNotLast ==
  /\ C7_Pre
  /\ pre.right[N] # pre.right[TreeParent(prekids, N)] - 1

\* ---------------------------------------------------------------- error kinds
NotFound == {ErrParentNotFound, ErrNodeNotFound, ErrStructureBroken}

InvalidArgument == {ErrCantDeleteRoot, ErrCantMoveRoot, ErrWithinItself}

NotImplemented == {ErrSameBranch}

Errors == NotFound \cup InvalidArgument \cup NotImplemented

\* C8: Move fails with a NotFound error and changes no coordinate whenever the
\* node to move is outside the collection, and likewise when the destination
\* parent is a non-nil node outside the collection.
C8_MoveOfAbsentIsNotFound ==
  (/\ mutex /\ last.op = "Move" /\ N # Nil
   /\ ~PreMember(N) \/ (last.parent # Nil /\ ~PreMember(last.parent)))
  => /\ last.res \in NotFound
     /\ left = pre.left /\ right = pre.right /\ level = pre.level

\* C9: whenever Add, Delete or Move returns an error, the collection has the
\* same members in the same order and every node, the arguments included, has
\* the left, right and level it had before the call.
C9_ErrorsChangeNothing ==
  (mutex /\ last.op \in Mutating /\ last.res \in Errors) => Snap = pre

\* A Move rejected on a collection that is not in ascending order of left.
C9_Witness ==
  /\ mutex /\ last.op = "Move" /\ last.res \in Errors
  /\ \E i \in 1..(Len(nodes) - 1) : left[nodes[i]] > left[nodes[i + 1]]

\* C10: the error of each request shape, in every reachable state: Delete(nil)
\* and Delete(root) are invalid-argument, Delete of a node outside the collection
\* is not-found, Add under a non-nil parent outside the collection is not-found,
\* Move(root, any) is invalid-argument, Move(A, P) with P = A or P within A is
\* invalid-argument ("within itself", even when P is also found as A's parent),
\* Move(A, parent of A) is not-implemented.
C10_DeleteShapes ==
  (mutex /\ last.op = "Delete") =>
    /\ N \in {Nil, rootNode} => last.res = ErrCantDeleteRoot
    /\ (N \notin {Nil, rootNode} /\ ~PreMember(N)) => last.res = ErrNodeNotFound

C10_AddShapes ==
  (mutex /\ last.op = "Add" /\ last.parent # Nil /\ ~PreMember(last.parent))
  => last.res = ErrParentNotFound

C10_MoveShapes ==
  (mutex /\ last.op = "Move" /\ N # Nil) =>
    /\ N = rootNode => last.res \in InvalidArgument
    /\ (PreMember(N) /\ P \in Within(pre, N)) =>
         /\ last.res \in InvalidArgument
         /\ N # rootNode => last.res = ErrWithinItself
    /\ (/\ PreMember(N) /\ N # rootNode
        /\ P = parentOf(pre.nodes, pre.left, pre.right, pre.level, N)
        /\ P \notin Within(pre, N))
       => last.res = ErrSameBranch

\* C10: every request shape of Delete, Add and Move gets the error stated above.
C10_ErrorShapes == C10_DeleteShapes /\ C10_AddShapes /\ C10_MoveShapes

\* ---------------------------------------------------------------- queries
\* C11: Parent(X) returns no node when X is the root or is outside the collection
\* (never added, or removed earlier, whatever coordinates it carries); for any
\* other X it returns the one member whose interval contains X's interval and
\* whose level is X.level - 1.
C11_ParentOfMemberOnly ==
  (mutex /\ last.op = "Parent" /\ N # Nil) =>
    IF N = rootNode \/ ~PreMember(N) THEN last.ret = <<>>
    ELSE LET above == {m \in Members(pre) : /\ pre.left[m] <= pre.left[N]
                                            /\ pre.right[m] >= pre.right[N]
                                            /\ pre.level[m] = pre.level[N] - 1}
         IN Cardinality(above) = 1 /\ last.ret = <<CHOOSE m \in above : TRUE>>

\* Strictly ascending order of left along a sequence of nodes.
Ascending(seq, l) == \A i \in 1..(Len(seq) - 1) : l[seq[i]] < l[seq[i + 1]]

\* C12: Branch(nil) returns every member exactly once in strictly ascending order
\* of left; Branch(X) of a member returns exactly X and the nodes within X's
\* interval, in strictly ascending order of left, X first; Branch(X) of a
\* non-nil node outside the collection returns the empty result.
C12_BranchReturnsSubtree ==
  (mutex /\ last.op = "Branch") =>
    IF N = Nil
    THEN /\ Range(last.ret) = Members(pre)
         /\ Len(last.ret) = Cardinality(Members(pre))
         /\ Ascending(last.ret, left)
    ELSE IF PreMember(N)
    THEN /\ Range(last.ret) = Within(pre, N)
         /\ Len(last.ret) = Cardinality(Within(pre, N))
         /\ Ascending(last.ret, left)
         /\ last.ret[1] = N
    ELSE last.ret = <<>>

\* C14: in every reachable state the root is a member of the collection and has
\* left = 0 and level = 0, whatever arguments the calls were given.
C14_RootStaysPut ==
  exists(nodes, rootNode) /\ left[rootNode] = 0 /\ level[rootNode] = 0

\* C18: in every reachable state each node reference occurs at most once in the
\* collection, and an Add of a node that is already a member overwrites no
\* member's coordinates.
C18_NoReferenceTwice ==
  /\ NoDuplicates(Snap)
  /\ (mutex /\ last.op = "Add" /\ N # Nil /\ PreMember(N)) =>
       \A n \in Members(pre) :
         left[n] = pre.left[n] /\ right[n] = pre.right[n] /\ level[n] = pre.level[n]

\* D's id is carried by no other node of the callers.
UniqueId(D) == \A n \in Pool \ {D} : id[n] # id[D]

Queries == {"Parent", "FindById", "Branch"}

\* C15: from a successful Delete(A) on, A and every node that was within A's
\* interval stay out of the collection until re-added by Add: for each such D,
\* Add under D and Delete(D) fail with not-found, Branch(D) is empty,
\* FindById(D.id) finds nothing when D's id is unique, and no query returns D.
C15_RemovedStayOut ==
  /\ \A D \in removed : ~exists(nodes, D)
  /\ mutex =>
       \A D \in preremoved :
         /\ (last.op = "Add" /\ last.parent = D) => last.res = ErrParentNotFound
         /\ (last.op = "Delete" /\ N = D) => last.res = ErrNodeNotFound
         /\ (last.op = "Branch" /\ N = D) => last.ret = <<>>
         /\ (last.op = "FindById" /\ last.id = id[D] /\ UniqueId(D)) => last.ret = <<>>
         /\ last.op \in Queries => D \notin Range(last.ret)

\* C16: Parent, FindById and Branch change neither the membership nor any
\* node's left, right or level; Parent and FindById leave the order of the
\* collection as it was, and every Branch leaves it in ascending order of left.
C16_QueriesChangeNothing ==
  (mutex /\ last.op \in Queries) =>
    /\ left = pre.left /\ right = pre.right /\ level = pre.level
    /\ Members(Snap) = Members(pre) /\ Len(nodes) = Len(pre.nodes)
    /\ last.op # "Branch" => nodes = pre.nodes
    /\ last.op = "Branch" =>
         \A i \in 1..(Len(nodes) - 1) : left[nodes[i]] <= left[nodes[i + 1]]

\* Branch of a node outside the collection, on a collection that was not in
\* ascending order of left.
C16_Witness ==
  /\ mutex /\ last.op = "Branch" /\ N # Nil /\ ~PreMember(N)
  /\ nodes # pre.nodes
  /\ Len(nodes) >= 3

\* The range of values between N's old interval and P's old right bound.
MoveLo == IF pre.left[N] < pre.right[P] THEN pre.left[N] ELSE pre.right[P]

MoveHi == IF pre.right[N] > pre.right[P] THEN pre.right[N] ELSE pre.right[P]

OutsideMove(n) ==
  /\ pre.left[n] < MoveLo \/ pre.left[n] > MoveHi
  /\ pre.right[n] < MoveLo \/ pre.right[n] > MoveHi

\* C17: a successful Add changes the level of no node but the new one; a
\* successful Delete changes no survivor's level; a successful Move(N, P) of
\* members changes the level of the nodes of N's subtree, each by
\* P.level + 1 - N.level, and of no other node, and leaves the left and right of
\* every node whose endpoints both lie outside the range between N's old
\* interval and P's old right bound.
C17_LevelFrame ==
  /\ (mutex /\ last.op = "Add" /\ last.res = Ok) =>
       \A n \in Pool \ {N} : level[n] = pre.level[n]
  /\ (mutex /\ last.op = "Delete" /\ last.res = Ok) =>
       \A n \in Members(Snap) : level[n] = pre.level[n]
  /\ (mutex /\ last.op = "Move" /\ last.res = Ok /\ PreMember(N) /\ PreMember(P)) =>
       /\ \A n \in Pool :
            level[n] = pre.level[n]
                       + (IF n \in Within(pre, N) THEN pre.level[P] + 1 - pre.level[N] ELSE 0)
       /\ \A n \in Members(pre) :
            OutsideMove(n) => left[n] = pre.left[n] /\ right[n] = pre.right[n]

\* A Move of a two-node subtree to another depth, with a non-root node lying
\* wholly outside the range.
C17_Witness ==
  /\ mutex /\ last.op = "Move" /\ last.res = Ok /\ PreMember(N) /\ PreMember(P)
  /\ pre.level[P] + 1 # pre.level[N]
  /\ Cardinality(Within(pre, N)) >= 2
  /\ \E n \in Members(pre) : OutsideMove(n)

\* C20: maxId is 0 after construction, grows by exactly 1 on each successful Add
\* and is unchanged by every other call, so it equals the number of successful
\* Add calls; no node's id is ever written.
C20_MaxIdCountsAdds ==
  /\ maxId = adds
  /\ id = [n \in Pool |-> n % NumIds]
  /\ mutex => maxId = pre.maxId + (IF last.op = "Add" /\ last.res = Ok THEN 1 ELSE 0)

\* An Add that fails after an Add and a Delete have succeeded.
C20_Witness ==
  /\ mutex /\ last.op = "Add" /\ last.res = ErrParentNotFound
  /\ maxId >= 1 /\ preremoved # {}

\* ---------------------------------------------------------------- concurrency
\* C13: no public call (MarshalJSON included) is reading or writing the
\* collection or the coordinates while another call's renumbering pass is
\* between its first and its last write.
C13_NoCallDuringPass ==
  \A q \in Procs :
    pc[q] = "pass" => \A p \in Procs \ {q} : pc[p] \in {"idle", "lock"}

Holding == {p \in Procs : pc[p] \in {"body", "pass", "unlock"}}

\* C19: every call that has started returns, the lock is held exactly while one
\* caller is between Lock and the deferred Unlock (so it is free once the calls
\* have returned, after a success as after an error), and no caller takes it twice.
C19_EveryCallReturns ==
  /\ [](Cardinality(Holding) <= 1 /\ (mutex <=> Holding # {}))
  /\ \A p \in Procs : (pc[p] # "idle") ~> (pc[p] = "idle")

\* A call on an error path is about to release the lock another caller waits for.
C19_Witness ==
  /\ \E p \in Procs : pc[p] = "unlock" /\ last.res \in Errors
  /\ \E p \in Procs : pc[p] = "lock"

====
